---- MODULE Spec2Model ----
(***************************************************************************)
(* Model of the AI Agent Evaluation Pipeline (src/app).                    *)
(*                                                                         *)
(* Conventions                                                             *)
(*   - A score is an integer number of hundredths (1.0 is 100, 0.15 is 15).*)
(*     Every score the evaluators produce is a multiple of 0.05, so the    *)
(*     mean of three of them is never within 1/600 of a rounding tie and   *)
(*     float error cannot change round(avg, 2).                            *)
(*   - A text is a sequence of tokens (words); "x in text" is a contiguous *)
(*     sub-sequence test.  A date value is a sequence of characters.       *)
(*   - Optional[T]: None is <<>>, a present value v is <<v>>.              *)
(*   - A call's outcome is a record with raised = "" on return, or the     *)
(*     name of the exception that left the function.                       *)
(***************************************************************************)
EXTENDS Integers, Sequences, FiniteSets, TLC

VARIABLES
    conv,           \* the ConversationInput handed to the pipeline / evaluators
    metricsIn,      \* the metric list handed to generate_suggestions
    called,         \* the operation that ran last ("none" before any)
    ret,            \* what it returned, or the exception it raised
    frame,          \* run_pipeline's locals when it was left
    evaluatorsRun,  \* the evaluators run_all_evaluators invoked, in order
    background_tasks, \* the results handed to BackgroundTasks for save_result
    annotations,    \* rows of the annotations table
    lastSubmitted,  \* per (conversation_id, annotator_id): the last annotation posted
    db_lock,        \* database.db_lock: TRUE while some thread holds it
    threads,        \* per thread: the database call it is in and its position
    logs,           \* rows of the logs table
    evaluations,    \* rows of the evaluations table, in insertion order
    clock           \* the wall clock datetime.now() reads

vars == <<conv, metricsIn, called, ret, frame, evaluatorsRun, background_tasks,
          annotations, lastSubmitted, db_lock, threads, logs, evaluations, clock>>

pipelineVars == <<frame, evaluatorsRun, background_tasks>>
storeVars == <<annotations, lastSubmitted>>
lockVars == <<db_lock, threads, logs, evaluations, clock>>

-----------------------------------------------------------------------------
(* Bounds *)

MaxMsgs == 3
MaxMetrics == 2
MaxConvs == 2
MaxAnnotators == 2
MaxCoherenceMsgs == 5
MaxThreads == 3

-----------------------------------------------------------------------------
(* models.py *)

None == <<>>
Some(v) == <<v>>

Role == {"user", "assistant", "system", "tool"}

EvaluatorType == {"llm_judge", "tool_check", "coherence"}

RoutingDecision == {"automated", "human_review"}

\* Python truthiness of an Optional[str] / Optional[List]: None and empty are falsy
Truthy(opt) == opt # None /\ opt[1] # <<>>

StrArg(chars) == [type |-> "str", val |-> chars]
IntArg == [type |-> "int", val |-> <<>>]

ToolCall(name, arguments) == [name |-> name, arguments |-> arguments]

Message(role, content, tool_calls, timestamp) ==
    [role |-> role, content |-> content, tool_calls |-> tool_calls, timestamp |-> timestamp]

EvaluationMetric(evaluator, score, reasoning, metadata) ==
    [evaluator |-> evaluator, score |-> score, reasoning |-> reasoning, metadata |-> metadata]

ImprovementSuggestion(target, suggestion, rationale, expected_impact) ==
    [target |-> target, suggestion |-> suggestion, rationale |-> rationale,
     expected_impact |-> expected_impact]

\* EvaluationResult: the fields with no default must all be given
EvaluationResultRequired ==
    {"conversation_id", "metrics", "aggregated_score", "issues", "suggestions", "routing"}

\* EvaluationResult(**kwargs): pydantic raises ValidationError when a required
\* field is missing
EvaluationResult(kwargs) ==
    IF EvaluationResultRequired \subseteq DOMAIN kwargs
        THEN [raised |-> "", value |-> kwargs]
        ELSE [raised |-> "ValidationError", value |-> <<>>]

-----------------------------------------------------------------------------
(* Text helpers *)

\* Python's "needle in hay" on token sequences
Contains(hay, needle) ==
    \E i \in 1..(Len(hay) - Len(needle) + 1) :
        SubSeq(hay, i, i + Len(needle) - 1) = needle

\* "; ".join(items)
RECURSIVE Join(_)
Join(items) ==
    IF items = <<>> THEN <<>>
    ELSE IF Len(items) = 1 THEN items[1]
    ELSE items[1] \o <<";">> \o Join(Tail(items))

\* re.IGNORECASE on the vocabulary in use
Lower(tok) ==
    CASE tok = "Find" -> "find"
      [] tok = "Weather" -> "weather"
      [] OTHER -> tok

Digit == {"0", "1", "2", "3", "4", "5", "6", "7", "8", "9"}

\* re.match(r"^\d{4}-\d{2}-\d{2}$", date_val): $ also matches before a final newline
DateRegexMatch(d) ==
    /\ \/ Len(d) = 10
       \/ Len(d) = 11 /\ d[11] = "\n"
    /\ \A i \in {1, 2, 3, 4, 6, 7, 9, 10} : d[i] \in Digit
    /\ d[5] = "-"
    /\ d[8] = "-"

-----------------------------------------------------------------------------
(* services/evaluators.py *)

Returned(metric) == [raised |-> "", metric |-> metric]
Raised(exc) == [raised |-> exc, metric |-> <<>>]

LATENCY_THRESHOLD == 1000

Max(a, b) == IF a >= b THEN a ELSE b

\* for msg in reversed(messages): the last assistant timestamp, then the nearest
\* user timestamp before it; the loop breaks when the pair is complete
RECURSIVE ScanLatencyPair(_, _, _, _)
ScanLatencyPair(messages, i, last_assistant_time, last_user_time) ==
    IF i = 0
        THEN [assistant |-> last_assistant_time, user |-> last_user_time]
        ELSE LET msg == messages[i]
                 a1 == IF msg.role = "assistant" /\ last_assistant_time = None
                           THEN Some(msg.timestamp)
                           ELSE last_assistant_time
             IN  IF msg.role = "user" /\ last_user_time = None /\ a1 # None
                     THEN [assistant |-> a1, user |-> Some(msg.timestamp)]
                     ELSE ScanLatencyPair(messages, i - 1, a1, last_user_time)

IsEmptyMessage(msg) == ~Truthy(msg.content) /\ ~Truthy(msg.tool_calls)

RECURSIVE EmptyMessageIssues(_)
EmptyMessageIssues(messages) ==
    IF messages = <<>> THEN <<>>
    ELSE (IF IsEmptyMessage(Head(messages))
              THEN << <<"Empty", "message", "detected", "for", "role", Head(messages).role>> >>
              ELSE <<>>)
         \o EmptyMessageIssues(Tail(messages))

\* 1. LATENCY CHECK on the pair the scan found, 2. EMPTY MESSAGE CHECK, and the metric
HeuristicsMetric(found, real_latency_ms, emptyIssues) ==
    LET slow == found /\ real_latency_ms > LATENCY_THRESHOLD
        latencyIssues ==
            IF ~found
                THEN << <<"Could", "not", "calculate", "latency", "(missing", "timestamp", "pair).">> >>
            ELSE IF slow
                THEN << <<"Latency", "violation:", "Response", "took", ToString(real_latency_ms), "ms">> >>
            ELSE <<>>
        issues == latencyIssues \o emptyIssues
        score == 100 - (IF slow THEN 15 ELSE 0) - 20 * Len(emptyIssues)
    IN  Returned(EvaluationMetric(
            "coherence",
            Max(0, score),
            <<"Heuristics", "Check:", ToString(Len(issues)), "issues", "found.",
              "Actual", "Latency:", ToString(real_latency_ms), "ms.">>,
            [issues |-> issues, latency_ms |-> real_latency_ms]))

PairFound(pair) == pair.user # None /\ pair.assistant # None

\* delta.total_seconds() * 1000, or the initial 0.0 when no pair was found
PairLatency(pair) == IF PairFound(pair) THEN pair.assistant[1] - pair.user[1] ELSE 0

HeuristicsOfPair(pair, emptyIssues) ==
    HeuristicsMetric(PairFound(pair), PairLatency(pair), emptyIssues)

check_heuristics(messages) ==
    HeuristicsOfPair(ScanLatencyPair(messages, Len(messages), None, None),
                     EmptyMessageIssues(messages))

\* intent_patterns, in declaration (dict insertion) order
intent_patterns ==
    << [pattern |-> "(book|find|search).*flight", tool |-> "flight_search"],
       [pattern |-> "refund", tool |-> "process_refund"],
       [pattern |-> "weather", tool |-> "get_weather"] >>

tool_definitions ==
    [flight_search |-> <<"destination", "date">>,
     process_refund |-> <<"order_id">>,
     get_weather |-> <<"city">>]

\* re.search(pattern, text, re.IGNORECASE) for the three patterns
ReSearch(pattern, text) ==
    CASE pattern = "(book|find|search).*flight" ->
            \E i \in 1..Len(text) : \E j \in (i + 1)..Len(text) :
                /\ Lower(text[i]) \in {"book", "find", "search"}
                /\ Lower(text[j]) = "flight"
      [] pattern = "refund" -> \E i \in 1..Len(text) : Lower(text[i]) = "refund"
      [] pattern = "weather" -> \E i \in 1..Len(text) : Lower(text[i]) = "weather"

NoIntent == "None"

\* for pattern, tool_name in intent_patterns.items(): first match, then break
RECURSIVE FirstPatternMatch(_, _)
FirstPatternMatch(text, k) ==
    IF k > Len(intent_patterns) THEN NoIntent
    ELSE IF ReSearch(intent_patterns[k].pattern, text) THEN intent_patterns[k].tool
    ELSE FirstPatternMatch(text, k + 1)

\* 1. Detect Intent: the outer loop runs over every message; the break leaves
\* only the pattern loop.  re.search raises TypeError on content None.
RECURSIVE DetectIntent(_, _, _)
DetectIntent(messages, i, user_intent) ==
    IF i > Len(messages) THEN [raised |-> "", intent |-> user_intent]
    ELSE LET msg == messages[i] IN
         IF msg.role # "user" THEN DetectIntent(messages, i + 1, user_intent)
         ELSE IF msg.content = None THEN [raised |-> "TypeError", intent |-> user_intent]
         ELSE LET m == FirstPatternMatch(msg.content[1], 1)
              IN  DetectIntent(messages, i + 1, IF m # NoIntent THEN m ELSE user_intent)

CheckMissingArgsKeepsScore(tool, missing, st) ==
    IF missing # <<>>
        THEN [st EXCEPT !.tool_called = TRUE, !.valid_args = FALSE,
                 !.reasoning = Append(@, <<"Tool", tool.name, "missing", "args:">> \o missing)]
        ELSE [st EXCEPT !.tool_called = TRUE]

\* A. Check Missing Args
CheckMissingArgs(tool, missing, st) ==
    IF missing # <<>>
        THEN [st EXCEPT !.tool_called = TRUE, !.valid_args = FALSE,
                 !.reasoning = Append(@, <<"Tool", tool.name, "missing", "args:">> \o missing),
                 !.score = 50]
        ELSE [st EXCEPT !.tool_called = TRUE]

\* B. Check Date Format; re.match raises TypeError when date_val is no string
CheckDateFormat(tool, st) ==
    IF tool.name = "flight_search" /\ "date" \in DOMAIN tool.arguments
        THEN IF tool.arguments["date"].type # "str" THEN [st EXCEPT !.raised = "TypeError"]
             ELSE IF ~DateRegexMatch(tool.arguments["date"].val)
                 THEN [st EXCEPT !.valid_args = FALSE,
                          !.reasoning = Append(@, <<"Invalid", "Date", "Format", "in", "flight_search:">>
                                                  \o tool.arguments["date"].val
                                                  \o <<"Expected", "YYYY-MM-DD.">>),
                          !.score = 50]
             ELSE st
        ELSE st

\* one tool call of an assistant message, in the loop of step 2
CheckToolCall(tool, user_intent, st) ==
    IF tool.name # user_intent \/ st.raised # "" THEN st
    ELSE CheckDateFormat(tool,
            CheckMissingArgs(tool,
                SelectSeq(tool_definitions[tool.name],
                          LAMBDA arg : arg \notin DOMAIN tool.arguments),
                st))

RECURSIVE CheckToolCalls(_, _, _)
CheckToolCalls(tools, user_intent, st) ==
    IF tools = <<>> THEN st
    ELSE CheckToolCalls(Tail(tools), user_intent, CheckToolCall(Head(tools), user_intent, st))

\* 2. Check Execution & Format: every tool call of every assistant message
RECURSIVE CheckExecution(_, _, _)
CheckExecution(messages, user_intent, st) ==
    IF messages = <<>> THEN st
    ELSE CheckExecution(Tail(messages), user_intent,
            IF Head(messages).role = "assistant" /\ Truthy(Head(messages).tool_calls)
                THEN CheckToolCalls(Head(messages).tool_calls[1], user_intent, st)
                ELSE st)

\* the end of evaluate_tool_usage: the score and reasoning after step 2
ToolUsageMetric(user_intent, st) ==
    IF st.raised # "" THEN Raised(st.raised)
    ELSE IF ~st.tool_called
        THEN Returned(EvaluationMetric("tool_check", 0,
                Join(Append(st.reasoning,
                            <<"User", "asked", "for", user_intent, "but", "no", "tool",
                              "was", "called", "(Hallucination).">>)),
                <<>>))
    ELSE IF st.valid_args
        THEN Returned(EvaluationMetric("tool_check", st.score,
                Join(Append(st.reasoning, <<"Tool", user_intent, "called", "correctly.">>)),
                <<>>))
    ELSE Returned(EvaluationMetric("tool_check", st.score, Join(st.reasoning), <<>>))

ToolUsageOfIntent(messages, detected) ==
    IF detected.raised # "" THEN Raised(detected.raised)
    ELSE IF detected.intent = NoIntent
        THEN Returned(EvaluationMetric("tool_check", 100,
                                       <<"No", "tool", "intent", "detected.">>, <<>>))
    ELSE ToolUsageMetric(detected.intent,
            CheckExecution(messages, detected.intent,
                [tool_called |-> FALSE, valid_args |-> TRUE, reasoning |-> <<>>,
                 score |-> 100, raised |-> ""]))

evaluate_tool_usage(messages) ==
    ToolUsageOfIntent(messages, DetectIntent(messages, 1, NoIntent))

SeqToSet(s) == {s[i] : i \in 1..Len(s)}

IsEmptyUserTurn(msg) == msg.role = "user" /\ ~Truthy(msg.content)

\* non-empty assistant contents, as a list
AssistantContents(messages) ==
    LET assistant_msgs == SelectSeq(messages, LAMBDA m : m.role = "assistant" /\ Truthy(m.content))
    IN  [i \in 1..Len(assistant_msgs) |-> assistant_msgs[i].content[1]]

CoherenceMetric(abrupt, loop, emptyTurns) ==
    LET issues == (IF abrupt THEN << <<"Ended", "abruptly", "on", "tool", "output.">> >> ELSE <<>>)
                  \o (IF loop THEN << <<"Detected", "repetitive", "content", "(Loop).">> >> ELSE <<>>)
                  \o [i \in 1..emptyTurns |-> <<"Empty", "user", "message", "found.">>]
        score == 100 - (IF abrupt THEN 50 ELSE 0) - (IF loop THEN 30 ELSE 0) - 20 * emptyTurns
    IN  Returned(EvaluationMetric(
            "coherence",
            Max(0, score),
            IF issues # <<>> THEN Join(issues) ELSE <<"Flow", "consistent.">>,
            <<>>))

HasLoopAdjacent(contents) ==
    \E i \in 1..(Len(contents) - 1) : contents[i] = contents[i + 1]

\* len(assistant_msgs) != len(set(assistant_msgs))
HasLoop(contents) == Len(contents) # Cardinality(SeqToSet(contents))

evaluate_coherence(messages) ==
    IF messages = <<>> THEN Raised("IndexError")    \* messages[-1]
    ELSE CoherenceMetric(messages[Len(messages)].role = "tool",
                         HasLoop(AssistantContents(messages)),
                         Len(SelectSeq(messages, IsEmptyUserTurn)))

USE_OPENAI == FALSE

\* The controller on the three evaluators' outcomes: they run in order, and an
\* exception leaves the function before the next one is called
Controller(h, t, c) ==
    IF USE_OPENAI
        THEN [raised |-> "", invoked |-> <<"check_heuristics">>, metrics |-> <<h.metric>>]
    ELSE IF t.raised # ""
        THEN [raised |-> t.raised, invoked |-> <<"check_heuristics", "evaluate_tool_usage">>,
              metrics |-> <<>>]
    ELSE IF c.raised # ""
        THEN [raised |-> c.raised,
              invoked |-> <<"check_heuristics", "evaluate_tool_usage", "evaluate_coherence">>,
              metrics |-> <<>>]
    ELSE [raised |-> "",
          invoked |-> <<"check_heuristics", "evaluate_tool_usage", "evaluate_coherence">>,
          metrics |-> <<h.metric, t.metric, c.metric>>]

run_all_evaluators(messages) ==
    Controller(check_heuristics(messages), evaluate_tool_usage(messages),
               evaluate_coherence(messages))

-----------------------------------------------------------------------------
(* services/optimizer.py *)

NoToolWasCalled == <<"no", "tool", "was", "called">>
MissingRequiredArgs == <<"missing", "required", "args">>

PromptsSuggestion ==
    ImprovementSuggestion(
        "prompts",
        "Add System Prompt Rule: 'If user intent implies X, you MUST call tool Y.'",
        <<"Model", "hallucinated", "a", "text", "response", "instead", "of", "taking", "action.">>,
        "Aligns intent-to-action ratio.")

ToolsSuggestion(metric) ==
    ImprovementSuggestion(
        "tools",
        "Update tool schema definition to make missing arguments mandatory.",
        <<"Model", "failed", "to", "output", "required", "args.", "Error:">> \o metric.reasoning,
        "Reduces SchemaValidationErrors.")

SuggestionsForAnyScore(metric) ==
    IF metric.evaluator = "tool_check"
        THEN IF Contains(metric.reasoning, NoToolWasCalled) THEN <<PromptsSuggestion>>
             ELSE IF Contains(metric.reasoning, MissingRequiredArgs) THEN <<ToolsSuggestion(metric)>>
             ELSE <<>>
        ELSE <<>>

\* the body of the loop over metrics: the suggestions one metric appends
SuggestionsFor(metric) ==
    IF metric.evaluator = "tool_check" /\ metric.score < 60
        THEN IF Contains(metric.reasoning, NoToolWasCalled) THEN <<PromptsSuggestion>>
             ELSE IF Contains(metric.reasoning, MissingRequiredArgs) THEN <<ToolsSuggestion(metric)>>
             ELSE <<>>
        ELSE <<>>

RECURSIVE generate_suggestions_logic(_)
generate_suggestions_logic(metrics) ==
    IF metrics = <<>> THEN <<>>
    ELSE SuggestionsFor(Head(metrics)) \o generate_suggestions_logic(Tail(metrics))

generate_suggestions(metrics) == generate_suggestions_logic(metrics)

-----------------------------------------------------------------------------
(* main.py *)

RECURSIVE SumScores(_)
SumScores(metrics) ==
    IF metrics = <<>> THEN 0 ELSE Head(metrics).score + SumScores(Tail(metrics))

RoundedMeanTruncated(sum, n) == sum \div n

\* round(sum / n, 2) in hundredths: the nearest hundredth of the mean
RoundedMean(sum, n) == (2 * sum + n) \div (2 * n)

\* 2. Aggregate Score, and the round() of the aggregated_score keyword
AggregateScore(metrics) ==
    IF metrics # <<>> THEN RoundedMean(SumScores(metrics), Len(metrics)) ELSE 0

\* issues=[m.reasoning for m in metrics if m.score < 1.0]
Issues(metrics) ==
    LET failing == SelectSeq(metrics, LAMBDA m : m.score < 100)
    IN  [i \in 1..Len(failing) |-> failing[i].reasoning]

\* the keyword arguments run_pipeline gives EvaluationResult
ResultKwargs(conversation, metrics) ==
    [conversation_id |-> conversation.id,
     metrics |-> metrics,
     aggregated_score |-> AggregateScore(metrics),
     issues |-> Issues(metrics),
     suggestions |-> generate_suggestions(metrics)]

\* return EvaluationResult(...): the construction and its outcome
Construct(invoked, kwargs, built) ==
    [raised |-> built.raised, value |-> built.value, invoked |-> invoked, kwargs |-> kwargs]

\* run_pipeline after the controller: its outcome, the evaluators that ran and the
\* keyword arguments it built (none when the controller raised)
PipelineAfter(ev, kwargs) ==
    IF ev.raised # ""
        THEN [raised |-> ev.raised, value |-> <<>>, invoked |-> ev.invoked, kwargs |-> <<>>]
        ELSE Construct(ev.invoked, kwargs, EvaluationResult(kwargs))

PipelineOf(conversation, ev) ==
    PipelineAfter(ev, ResultKwargs(conversation, ev.metrics))

run_pipeline(conversation) ==
    PipelineOf(conversation, run_all_evaluators(conversation.messages))

-----------------------------------------------------------------------------
(* database.py *)

ConvIds == 1..MaxConvs
AnnotatorIds == 1..MaxAnnotators

\* INSERT OR REPLACE INTO annotations: the primary key is (conversation_id,
\* annotator_id); labels are written as the literal "[]"
save_annotation(rows, conv_id, annotator, score, confidence) ==
    {r \in rows : ~(r.conversation_id = conv_id /\ r.annotator_id = annotator)}
    \cup {[conversation_id |-> conv_id, annotator_id |-> annotator, score |-> score,
           labels |-> <<>>, confidence |-> confidence]}

\* confidence=1.0, the default of save_annotation's parameter
DefaultConfidence == 100

\* the sum of the values of a set of <<key, value>> pairs
RECURSIVE SumValues(_)
SumValues(pairs) ==
    IF pairs = {} THEN 0
    ELSE LET p == CHOOSE q \in pairs : TRUE IN p[2] + SumValues(pairs \ {p})

RECURSIVE ISqrtBetween(_, _, _)
ISqrtBetween(x, lo, hi) ==
    IF lo = hi THEN lo
    ELSE LET mid == (lo + hi + 1) \div 2
         IN  IF mid * mid <= x THEN ISqrtBetween(x, mid, hi) ELSE ISqrtBetween(x, lo, mid - 1)

ISqrt(x) == ISqrtBetween(x, 0, 20000)

\* the sample standard deviation (ddof = 1) of a group's scores, in units of
\* 1/10000, rounded down; only for groups of two or more rows
GroupStd(group) ==
    LET n == Cardinality(group)
        s1 == SumValues({<<r.annotator_id, r.score>> : r \in group})
        s2 == SumValues({<<r.annotator_id, r.score * r.score>> : r \in group})
    IN  ISqrt(((n * s2 - s1 * s1) * 10000) \div (n * (n - 1)))

Sentinel == [index |-> 0, method |-> "Insufficient Data"]

\* get_agreement_score on the rows of the table.  groupby().std() is NaN for a
\* group of one row, mean() skips NaN and is NaN when nothing is left, and a NaN
\* disagreement gives the index 1.0
get_agreement_score(rows) ==
    IF rows = {} \/ Cardinality(rows) < 2 THEN Sentinel
    ELSE LET ids == {r.conversation_id : r \in rows}
             Group(c) == {r \in rows : r.conversation_id = c}
             measured == {c \in ids : Cardinality(Group(c)) >= 2}
             disagreement == SumValues({<<c, GroupStd(Group(c))>> : c \in measured})
                             \div Cardinality(measured)
             agreement_index ==
                IF measured # {}
                    THEN (2 * 1000000 + (10000 + disagreement)) \div (2 * (10000 + disagreement))
                    ELSE 100
         IN  [index |-> agreement_index, method |-> "Variance-Based Agreement Index"]

\* the threads that call into database.py
Threads == 1..MaxThreads

\* a thread outside database.py; conn is its sqlite3 connection with the
\* statements of the open transaction, df the frame read_sql returned
IdleThread == [op |-> "none", arg |-> <<>>, pc |-> "idle", conn |-> None, df |-> None, value |-> <<>>]

\* sqlite3.connect(DB_NAME): a connection with no open transaction
Connection == [logs |-> <<>>, evaluations |-> <<>>, annotations |-> <<>>]

\* threading.Lock.acquire: blocks while the lock is held
CanAcquireAlways(locked) == TRUE

CanAcquire(locked) == ~locked

\* json.dumps of a list of models
JsonDumps(items) == [json |-> items]

\* INSERT OR REPLACE INTO logs: the primary key is id
InsertOrReplaceLog(rows, row) == {r \in rows : r.id # row.id} \cup {row}

\* the row save_result inserts into logs
LogRow(result, now) == [id |-> result.conversation_id, logs |-> "{}", timestamp |-> now]

\* the row save_result inserts into evaluations
EvaluationRow(result, now) ==
    [id |-> result.conversation_id,
     metrics |-> JsonDumps(result.metrics),
     aggregated_score |-> result.aggregated_score,
     suggestions |-> JsonDumps(result.suggestions),
     timestamp |-> now]

\* the statements of a transaction applied to a table, in order
RECURSIVE ApplyLogs(_, _)
ApplyLogs(rows, pending) ==
    IF pending = <<>> THEN rows
    ELSE ApplyLogs(InsertOrReplaceLog(rows, Head(pending)), Tail(pending))

RECURSIVE ApplyAnnotations(_, _)
ApplyAnnotations(rows, pending) ==
    IF pending = <<>> THEN rows
    ELSE ApplyAnnotations(save_annotation(rows, Head(pending).conv_id, Head(pending).annotator,
                                          Head(pending).score, Head(pending).confidence),
                          Tail(pending))

-----------------------------------------------------------------------------
(* Inputs *)

Paris == StrArg(<<"P", "a", "r", "i", "s">>)
IsoDate == StrArg(<<"2", "0", "2", "4", "-", "0", "5", "-", "0", "1">>)
Friday == StrArg(<<"F", "r", "i", "d", "a", "y">>)

SampleToolCalls ==
    { ToolCall("flight_search", [destination |-> Paris, date |-> IsoDate]),
      ToolCall("flight_search", [destination |-> Paris]),
      ToolCall("flight_search", [destination |-> Paris, date |-> Friday]),
      ToolCall("flight_search", [date |-> Friday]),
      ToolCall("flight_search", [destination |-> Paris, date |-> IntArg]),
      ToolCall("get_weather", <<>>) }

SampleUserContents ==
    { None, Some(<<>>), Some(<<"hello">>), Some(<<"Find", "a", "flight">>),
      Some(<<"refund", "weather">>), Some(<<"Weather">>) }

SampleMessages ==
    {Message("user", c, None, 0) : c \in SampleUserContents}
    \cup {Message("assistant", c, None, t) : c \in {Some(<<>>), Some(<<"ok">>)}, t \in {1000, 1001}}
    \cup {Message("assistant", Some(<<>>), Some(<<tc>>), t) : tc \in SampleToolCalls, t \in {1000, 1001}}
    \cup {Message("tool", Some(<<"result">>), None, 0)}
    \cup {Message("system", Some(<<"sys">>), None, 0)}

\* a conversation of at most MaxMsgs sample messages
IsConversation(c) ==
    \E k \in 0..MaxMsgs : \E m \in [1..k -> SampleMessages] :
        c = [id |-> "conv1", messages |-> m]

\* the messages the coherence evaluator tells apart: role, and content by
\* emptiness and equality
CoherenceMessages ==
    { Message("user", Some(<<>>), None, 0), Message("user", None, None, 0),
      Message("user", Some(<<"hello">>), None, 0),
      Message("assistant", Some(<<"ok">>), None, 1000),
      Message("assistant", Some(<<"done">>), None, 1000),
      Message("tool", Some(<<"result">>), None, 0) }

IsCoherenceConversation(c) ==
    \E k \in 0..MaxCoherenceMsgs : \E m \in [1..k -> CoherenceMessages] :
        c = [id |-> "conv1", messages |-> m]

SampleReasonings ==
    { <<"Flow", "consistent.">>,
      <<"User", "asked", "for", "get_weather", "but", "no", "tool", "was", "called", "(Hallucination).">>,
      <<"Tool", "get_weather", "missing", "required", "args">>,
      <<"no", "tool", "was", "called", ";", "missing", "required", "args">> }

SampleMetrics ==
    {EvaluationMetric(e, sc, r, <<>>) : e \in EvaluatorType, sc \in {0, 50, 60, 100},
                                        r \in SampleReasonings}

IsMetricList(l) == \E k \in 0..MaxMetrics : \E m \in [1..k -> SampleMetrics] : l = m

HumanAnnotations ==
    {[conversation_id |-> c, annotator_id |-> a, score |-> sc, labels |-> q[1], confidence |-> q[2]] :
        c \in ConvIds, a \in AnnotatorIds, sc \in {0, 50, 100},
        q \in {<< <<>>, 100 >>, << <<"good">>, 50 >>}}

\* the results handed to save_result: one per conversation id
SampleResults ==
    {[conversation_id |-> c,
      metrics |-> <<EvaluationMetric("tool_check", 100, <<"No", "tool", "intent", "detected.">>, <<>>)>>,
      aggregated_score |-> 100, issues |-> <<>>, suggestions |-> <<>>, routing |-> "automated"] :
        c \in ConvIds}

\* the arguments of concurrent save_annotation calls
SampleAnnotationCalls ==
    {[conv_id |-> c, annotator |-> a, score |-> sc, confidence |-> DefaultConfidence] :
        c \in ConvIds, a \in AnnotatorIds, sc \in {0, 100}}

-----------------------------------------------------------------------------
(* Specifications *)

NoRet == [raised |-> "", value |-> <<>>]

Idle ==
    /\ called = "none"
    /\ ret = NoRet
    /\ frame = <<>>
    /\ evaluatorsRun = <<>>
    /\ background_tasks = <<>>
    /\ annotations = {}
    /\ lastSubmitted = [k \in ConvIds \X AnnotatorIds |-> None]
    /\ db_lock = FALSE
    /\ threads = [t \in Threads |-> IdleThread]
    /\ logs = {}
    /\ evaluations = <<>>
    /\ clock = 0

\* POST /ingest
Ingested(r) ==
    /\ called = "none"
    /\ called' = "ingest_logs"
    /\ ret' = [raised |-> r.raised, value |-> r.value]
    /\ frame' = r.kwargs
    /\ evaluatorsRun' = r.invoked
    /\ background_tasks' = IF r.raised = "" THEN Append(background_tasks, r.value)
                                            ELSE background_tasks
    /\ UNCHANGED <<conv, metricsIn, lockVars, storeVars>>

ingest_logs == Ingested(run_pipeline(conv))

\* a direct call of one evaluator on the conversation's messages
CallEvaluator(name, outcome) ==
    /\ called = "none"
    /\ called' = name
    /\ ret' = [raised |-> outcome.raised, value |-> outcome.metric]
    /\ UNCHANGED <<conv, metricsIn, lockVars, pipelineVars, storeVars>>

call_check_heuristics == CallEvaluator("check_heuristics", check_heuristics(conv.messages))

call_evaluate_tool_usage == CallEvaluator("evaluate_tool_usage", evaluate_tool_usage(conv.messages))

call_evaluate_coherence == CallEvaluator("evaluate_coherence", evaluate_coherence(conv.messages))

Init ==
    /\ IsConversation(conv)
    /\ metricsIn = <<>>
    /\ Idle

Next ==
    \/ ingest_logs
    \/ call_check_heuristics
    \/ call_evaluate_tool_usage
    \/ call_evaluate_coherence

Spec == Init /\ [][Next]_vars

\* the Suggestion Engine on a metric list
call_generate_suggestions ==
    /\ called = "none"
    /\ called' = "generate_suggestions"
    /\ ret' = [raised |-> "", value |-> generate_suggestions(metricsIn)]
    /\ UNCHANGED <<conv, metricsIn, lockVars, pipelineVars, storeVars>>

InitSuggest ==
    /\ conv = [id |-> "conv1", messages |-> <<>>]
    /\ IsMetricList(metricsIn)
    /\ Idle

NextSuggest == call_generate_suggestions

SpecSuggest == InitSuggest /\ [][NextSuggest]_vars

\* the coherence evaluator on longer conversations
InitCoherence ==
    /\ IsCoherenceConversation(conv)
    /\ metricsIn = <<>>
    /\ Idle

NextCoherence == call_evaluate_coherence

SpecCoherence == InitCoherence /\ [][NextCoherence]_vars

\* POST /feedback
submit_feedback(annotation) ==
    /\ annotations' = save_annotation(annotations, annotation.conversation_id,
                                      annotation.annotator_id, annotation.score,
                                      DefaultConfidence)
    /\ lastSubmitted' = [lastSubmitted EXCEPT
                            ![<<annotation.conversation_id, annotation.annotator_id>>] =
                                Some(annotation)]
    /\ called' = "submit_feedback"
    /\ ret' = [raised |-> "",
               value |-> [status |-> "recorded", weighted_impact |-> annotation.confidence]]
    /\ UNCHANGED <<conv, metricsIn, lockVars, pipelineVars>>

\* GET /metrics/agreement
get_meta_metrics ==
    /\ called' = "get_meta_metrics"
    /\ ret' = [raised |-> "", value |-> get_agreement_score(annotations)]
    /\ UNCHANGED <<conv, metricsIn, lockVars, pipelineVars, storeVars>>

InitStore ==
    /\ conv = [id |-> "conv1", messages |-> <<>>]
    /\ metricsIn = <<>>
    /\ Idle

NextStore ==
    \/ \E annotation \in HumanAnnotations : submit_feedback(annotation)
    \/ get_meta_metrics

SpecStore == InitStore /\ [][NextStore]_vars

\* the database functions called from concurrent threads, statement by statement
At(t, op, pc) == threads[t].op = op /\ threads[t].pc = pc

Goto(t, pc) == threads' = [threads EXCEPT ![t].pc = pc]

Enter(t, op, arg) ==
    /\ threads[t].pc = "idle"
    /\ threads' = [threads EXCEPT ![t] = [IdleThread EXCEPT !.op = op, !.arg = arg, !.pc = "acquire"]]
    /\ UNCHANGED <<conv, metricsIn, called, ret, pipelineVars, storeVars,
                   db_lock, logs, evaluations, clock>>

call_save_result(t, result) == Enter(t, "save_result", result)

call_save_annotation(t, args) == Enter(t, "save_annotation", args)

call_get_agreement_score(t) == Enter(t, "get_agreement_score", <<>>)

\* with db_lock:
acquire(t) ==
    /\ threads[t].pc = "acquire"
    /\ CanAcquire(db_lock)
    /\ db_lock' = TRUE
    /\ Goto(t, "connect")
    /\ UNCHANGED <<conv, metricsIn, called, ret, pipelineVars, storeVars, logs, evaluations, clock>>

\* conn = sqlite3.connect(DB_NAME)
connect(t) ==
    /\ threads[t].pc = "connect"
    /\ threads' = [threads EXCEPT ![t].conn = Some(Connection),
                                  ![t].pc = CASE threads[t].op = "save_result" -> "insert_log"
                                              [] threads[t].op = "save_annotation" -> "upsert"
                                              [] OTHER -> "read_sql"]
    /\ UNCHANGED <<conv, metricsIn, called, ret, pipelineVars, storeVars,
                   db_lock, logs, evaluations, clock>>

\* save_result: INSERT OR REPLACE INTO logs, inside the connection's transaction
insert_log(t) ==
    /\ At(t, "save_result", "insert_log")
    /\ clock' = clock + 1
    /\ threads' = [threads EXCEPT
                      ![t].conn = Some([threads[t].conn[1] EXCEPT
                                           !.logs = Append(@, LogRow(threads[t].arg, clock))]),
                      ![t].pc = "insert_evaluation"]
    /\ UNCHANGED <<conv, metricsIn, called, ret, pipelineVars, storeVars, db_lock, logs, evaluations>>

\* save_result: INSERT INTO evaluations
insert_evaluation(t) ==
    /\ At(t, "save_result", "insert_evaluation")
    /\ clock' = clock + 1
    /\ threads' = [threads EXCEPT
                      ![t].conn = Some([threads[t].conn[1] EXCEPT
                                           !.evaluations = Append(@, EvaluationRow(threads[t].arg, clock))]),
                      ![t].pc = "commit"]
    /\ UNCHANGED <<conv, metricsIn, called, ret, pipelineVars, storeVars, db_lock, logs, evaluations>>

\* save_annotation: INSERT OR REPLACE INTO annotations
upsert_annotation(t) ==
    /\ At(t, "save_annotation", "upsert")
    /\ threads' = [threads EXCEPT
                      ![t].conn = Some([threads[t].conn[1] EXCEPT
                                           !.annotations = Append(@, threads[t].arg)]),
                      ![t].pc = "commit"]
    /\ UNCHANGED <<conv, metricsIn, called, ret, pipelineVars, storeVars,
                   db_lock, logs, evaluations, clock>>

\* conn.commit(): the transaction's statements reach the tables at once
commit(t) ==
    /\ threads[t].pc = "commit"
    /\ logs' = ApplyLogs(logs, threads[t].conn[1].logs)
    /\ evaluations' = evaluations \o threads[t].conn[1].evaluations
    /\ annotations' = ApplyAnnotations(annotations, threads[t].conn[1].annotations)
    /\ threads' = [threads EXCEPT ![t].conn = Some(Connection), ![t].pc = "close"]
    /\ UNCHANGED <<conv, metricsIn, called, ret, pipelineVars, lastSubmitted, db_lock, clock>>

\* get_agreement_score: pd.read_sql on the committed rows
read_sql(t) ==
    /\ At(t, "get_agreement_score", "read_sql")
    /\ threads' = [threads EXCEPT ![t].df = Some(annotations), ![t].pc = "close"]
    /\ UNCHANGED <<conv, metricsIn, called, ret, pipelineVars, storeVars,
                   db_lock, logs, evaluations, clock>>

\* conn.close()
close(t) ==
    /\ threads[t].pc = "close"
    /\ threads' = [threads EXCEPT ![t].conn = None, ![t].pc = "release"]
    /\ UNCHANGED <<conv, metricsIn, called, ret, pipelineVars, storeVars,
                   db_lock, logs, evaluations, clock>>

\* the end of the with block
release(t) ==
    /\ threads[t].pc = "release"
    /\ db_lock' = FALSE
    /\ Goto(t, IF threads[t].op = "get_agreement_score" THEN "compute" ELSE "done")
    /\ UNCHANGED <<conv, metricsIn, called, ret, pipelineVars, storeVars, logs, evaluations, clock>>

\* get_agreement_score after the with block
compute_agreement(t) ==
    /\ At(t, "get_agreement_score", "compute")
    /\ threads' = [threads EXCEPT ![t].value = get_agreement_score(threads[t].df[1]),
                                  ![t].pc = "done"]
    /\ UNCHANGED <<conv, metricsIn, called, ret, pipelineVars, storeVars,
                   db_lock, logs, evaluations, clock>>

InitThreads ==
    /\ conv = [id |-> "conv1", messages |-> <<>>]
    /\ metricsIn = <<>>
    /\ Idle

NextThreads ==
    \E t \in Threads :
        \/ \E result \in SampleResults : call_save_result(t, result)
        \/ \E args \in SampleAnnotationCalls : call_save_annotation(t, args)
        \/ call_get_agreement_score(t)
        \/ acquire(t)
        \/ connect(t)
        \/ insert_log(t)
        \/ insert_evaluation(t)
        \/ upsert_annotation(t)
        \/ commit(t)
        \/ read_sql(t)
        \/ close(t)
        \/ release(t)
        \/ compute_agreement(t)

SpecThreads == InitThreads /\ [][NextThreads]_vars

-----------------------------------------------------------------------------
(* Properties *)

Abs(x) == IF x < 0 THEN -x ELSE x

Indices(s) == 1..Len(s)

\* run_pipeline ran the controller to its end and built the result's keyword arguments
PipelineBuiltKwargs == called = "ingest_logs" /\ DOMAIN frame # {}

\* C1: every conversation submitted to /ingest gets an EvaluationResult whose
\* routing is HUMAN_REVIEW iff its aggregated_score is below 0.4, AUTOMATED
\* otherwise.  Stated for the conversations on which every evaluator returned.
C1_RoutingFollowsScore ==
    PipelineBuiltKwargs =>
        /\ ret.raised = ""
        /\ "routing" \in DOMAIN ret.value
        /\ ret.value.routing \in RoutingDecision
        /\ ret.value.routing = "human_review" <=> ret.value.aggregated_score < 40

Keys == ConvIds \X AnnotatorIds

RowsOf(k) == {r \in annotations : r.conversation_id = k[1] /\ r.annotator_id = k[2]}

\* C3: the annotation store holds exactly one row per pair submitted, with the
\* score, labels and confidence of the pair's most recent submission.
C3_StoreHoldsLastSubmission ==
    \A k \in Keys :
        IF lastSubmitted[k] = None THEN RowsOf(k) = {}
        ELSE /\ Cardinality(RowsOf(k)) = 1
             /\ \A r \in RowsOf(k) :
                    /\ r.score = lastSubmitted[k][1].score
                    /\ r.labels = lastSubmitted[k][1].labels
                    /\ r.confidence = lastSubmitted[k][1].confidence

SomeConversationHasTwoAnnotators ==
    \E r1 \in annotations : \E r2 \in annotations :
        r1.conversation_id = r2.conversation_id /\ r1.annotator_id # r2.annotator_id

\* C4: the agreement query answers the sentinel (0.0, "Insufficient Data")
\* exactly when fewer than 2 annotations are stored or no conversation has two
\* annotators, and a computed index only when some conversation has two.
C4_SentinelWhenInsufficient ==
    called = "get_meta_metrics" =>
        (ret.value = Sentinel <=>
            (Cardinality(annotations) < 2 \/ ~SomeConversationHasTwoAnnotators))

\* the user messages in which some intent pattern is found
MatchingUserTurns(messages) ==
    {i \in Indices(messages) :
        /\ messages[i].role = "user"
        /\ messages[i].content # None
        /\ \E k \in Indices(intent_patterns) :
               ReSearch(intent_patterns[k].pattern, messages[i].content[1])}

\* the tool of the earliest pattern, in declaration order, found in a text
EarliestPatternTool(text) ==
    LET k == CHOOSE k \in Indices(intent_patterns) :
                /\ ReSearch(intent_patterns[k].pattern, text)
                /\ \A j \in 1..(k - 1) : ~ReSearch(intent_patterns[j].pattern, text)
    IN  intent_patterns[k].tool

\* the intent the evaluator acts on: that of the last matching user message
DetectedIntent(messages) ==
    LET last == CHOOSE i \in MatchingUserTurns(messages) :
                    \A j \in MatchingUserTurns(messages) : j <= i
    IN  EarliestPatternTool(messages[last].content[1])

\* the tool calls of assistant messages that have the given name
CallsNamed(messages, name) ==
    UNION { {tc \in SeqToSet(messages[i].tool_calls[1]) : tc.name = name} :
            i \in {i \in Indices(messages) :
                     messages[i].role = "assistant" /\ Truthy(messages[i].tool_calls)} }

MissesRequiredArg(tc) ==
    \E a \in SeqToSet(tool_definitions[tc.name]) : a \notin DOMAIN tc.arguments

HasBadDate(tc) ==
    /\ tc.name = "flight_search"
    /\ "date" \in DOMAIN tc.arguments
    /\ tc.arguments["date"].type = "str"
    /\ ~DateRegexMatch(tc.arguments["date"].val)

C6_MissingArgsGetToolsSuggestion ==
    (/\ PipelineBuiltKwargs
     /\ frame.metrics[2].evaluator = "tool_check"
     /\ frame.metrics[2].score = 50
     /\ Contains(frame.metrics[2].reasoning, <<"missing", "args:">>)) =>
        \E i \in Indices(frame.suggestions) : frame.suggestions[i].target = "tools"

\* C7: the Suggestion Engine produces a suggestion for each COHERENCE metric
\* whose score is below 0.5.
C7_LowCoherenceGetsSuggestion ==
    called = "generate_suggestions" =>
        Len(ret.value) >= Cardinality({i \in Indices(metricsIn) :
                                          /\ metricsIn[i].evaluator = "coherence"
                                          /\ metricsIn[i].score < 50})

IsHallucination(m) ==
    m.evaluator = "tool_check" /\ m.score < 60 /\ Contains(m.reasoning, NoToolWasCalled)

MatchesSomeRule(m) ==
    \/ IsHallucination(m)
    \/ m.evaluator = "tool_check" /\ m.score < 60 /\ Contains(m.reasoning, MissingRequiredArgs)
    \/ m.evaluator = "coherence" /\ m.score < 50

\* C8: the Suggestion Engine emits exactly one "prompts" suggestion per
\* TOOL_CHECK metric below 0.6 whose reasoning contains "no tool was called",
\* none for metrics that match no rule, and none at all for an empty or
\* all-passing list.
C8_PromptsSuggestionPerHallucination ==
    called = "generate_suggestions" =>
        /\ Cardinality({i \in Indices(ret.value) : ret.value[i].target = "prompts"})
             = Cardinality({i \in Indices(metricsIn) : IsHallucination(metricsIn[i])})
        /\ Len(ret.value) <= Cardinality({i \in Indices(metricsIn) : MatchesSomeRule(metricsIn[i])})
        /\ (\A i \in Indices(metricsIn) : ~MatchesSomeRule(metricsIn[i])) => ret.value = <<>>
        /\ (\A i \in Indices(metricsIn) : metricsIn[i].score = 100) => ret.value = <<>>

\* a hallucination metric at score 0 beside a metric that matches no rule: one
\* suggestion, targeting "prompts"
C8_Witness ==
    /\ called = "generate_suggestions"
    /\ Len(metricsIn) = 2
    /\ IsHallucination(metricsIn[1]) /\ metricsIn[1].score = 0
    /\ ~MatchesSomeRule(metricsIn[2]) /\ metricsIn[2].score < 100
    /\ Len(ret.value) = 1
    /\ ret.value[1].target = "prompts"

EndsOnTool(messages) == messages[Len(messages)].role = "tool"

AssistantRepeats(messages) ==
    \E i \in Indices(messages) : \E j \in Indices(messages) :
        /\ i # j
        /\ messages[i].role = "assistant" /\ messages[j].role = "assistant"
        /\ messages[i].content # None /\ messages[i].content # Some(<<>>)
        /\ messages[i].content = messages[j].content

EmptyUserTurns(messages) ==
    {i \in Indices(messages) :
        messages[i].role = "user" /\ messages[i].content \in {None, Some(<<>>)}}

\* C9: on a non-empty conversation the coherence evaluator's score is
\* max(0, 1 - 0.5*[last message is a tool message] - 0.3*[two assistant messages
\* have the same non-empty content] - 0.2*(user messages with empty content)).
C9_CoherenceScore ==
    (called = "evaluate_coherence" /\ conv.messages # <<>>) =>
        /\ ret.raised = ""
        /\ ret.value.score =
             Max(0, 100 - (IF EndsOnTool(conv.messages) THEN 50 ELSE 0)
                        - (IF AssistantRepeats(conv.messages) THEN 30 ELSE 0)
                        - 20 * Cardinality(EmptyUserTurns(conv.messages)))

\* the same assistant content three times, not next to each other, and the
\* conversation ends on a tool message: 1 - 0.5 - 0.3, the loop counted once
C9_Witness ==
    /\ called = "evaluate_coherence"
    /\ Len(conv.messages) = 5
    /\ EndsOnTool(conv.messages)
    /\ conv.messages[1].role = "assistant"
    /\ conv.messages[2].role = "user"
    /\ conv.messages[3] = conv.messages[1]
    /\ conv.messages[4] = conv.messages[1]
    /\ EmptyUserTurns(conv.messages) = {}
    /\ ret.value.score = 20

\* C10: a conversation with zero messages is rejected before any evaluator
\* runs: none is invoked, none raises, no result or metric is produced.
C10_EmptyConversationRejected ==
    (called = "ingest_logs" /\ conv.messages = <<>>) =>
        /\ evaluatorsRun = <<>>
        /\ ret.raised \notin {"IndexError", "TypeError"}
        /\ ret.value = <<>>

\* the evaluators of the controller, in its order, with their outcome on a message list
EvaluatorOutcomes(messages) ==
    <<check_heuristics(messages), evaluate_tool_usage(messages), evaluate_coherence(messages)>>

\* C11: when an evaluator raises on the conversation, the controller still
\* invokes all three and returns three metrics in the fixed order, a metric of
\* score 0.0 standing for each evaluator that raised and the own metric of each
\* that returned; the evaluator's exception does not leave /ingest.
C11_EvaluatorFailureIsolated ==
    (called = "ingest_logs" /\ \E i \in 1..3 : EvaluatorOutcomes(conv.messages)[i].raised # "") =>
        /\ ret.raised \notin {"TypeError", "IndexError"}
        /\ evaluatorsRun = <<"check_heuristics", "evaluate_tool_usage", "evaluate_coherence">>
        /\ DOMAIN frame # {}
        /\ Len(frame.metrics) = 3
        /\ \A i \in 1..3 :
               LET o == EvaluatorOutcomes(conv.messages)[i] IN
               IF o.raised # "" THEN frame.metrics[i].score = 0
                                ELSE frame.metrics[i] = o.metric

\* the intent of the first match: the earliest matching user message, and in it
\* the earliest pattern in declaration order
FirstMatchIntent(messages) ==
    LET first == CHOOSE i \in MatchingUserTurns(messages) :
                     \A j \in MatchingUserTurns(messages) : i <= j
    IN  EarliestPatternTool(messages[first].content[1])

\* C12: when user messages match intent patterns, the intent evaluate_tool_usage
\* detects and scores against is that of the earliest matching user message
\* (within it, of the earliest pattern in declaration order); later matching
\* user messages do not change it.
C12_FirstMatchWins ==
    (called = "evaluate_tool_usage" /\ ret.raised = "" /\ MatchingUserTurns(conv.messages) # {}) =>
        /\ DetectIntent(conv.messages, 1, NoIntent).intent = FirstMatchIntent(conv.messages)
        /\ ret.value = ToolUsageOfIntent(conv.messages,
                          [raised |-> "", intent |-> FirstMatchIntent(conv.messages)]).metric

\* the assistant messages of a list
AssistantTurns(messages) == {i \in Indices(messages) : messages[i].role = "assistant"}

\* the most recent assistant message
LastAssistant(messages) ==
    CHOOSE a \in AssistantTurns(messages) : \A b \in AssistantTurns(messages) : b <= a

\* the user messages before the most recent assistant message with no other
\* assistant message in between
PrecedingUsers(messages) ==
    IF AssistantTurns(messages) = {} THEN {}
    ELSE {u \in 1..(LastAssistant(messages) - 1) :
            /\ messages[u].role = "user"
            /\ \A k \in (u + 1)..(LastAssistant(messages) - 1) : messages[k].role # "assistant"}

NearestPrecedingUser(messages) ==
    CHOOSE u \in PrecedingUsers(messages) : \A v \in PrecedingUsers(messages) : v <= u

CouldNotCalculate == <<"Could", "not", "calculate", "latency", "(missing", "timestamp", "pair).">>

\* C13: check_heuristics measures latency between the most recent assistant
\* message and the nearest user message before it with no other assistant
\* message in between, and deducts 0.15 iff it exceeds the threshold; when
\* another assistant message comes first going backward, or no user message
\* precedes, no pair is found: the informational issue is recorded, the latency
\* is 0 and nothing is deducted for latency.
C13_LatencyPair ==
    called = "check_heuristics" =>
        LET messages == conv.messages
            empties == Cardinality({i \in Indices(messages) : IsEmptyMessage(messages[i])})
            issues == ret.value.metadata.issues
            informed == \E i \in Indices(issues) : issues[i] = CouldNotCalculate
        IN  /\ ret.raised = ""
            /\ IF PrecedingUsers(messages) # {}
                 THEN LET latency == messages[LastAssistant(messages)].timestamp
                                     - messages[NearestPrecedingUser(messages)].timestamp
                      IN  /\ ret.value.metadata.latency_ms = latency
                          /\ ~informed
                          /\ ret.value.score =
                                Max(0, 100 - (IF latency > LATENCY_THRESHOLD THEN 15 ELSE 0)
                                           - 20 * empties)
                 ELSE /\ informed
                      /\ ret.value.metadata.latency_ms = 0
                      /\ ret.value.score = Max(0, 100 - 20 * empties)

\* the threads inside a with db_lock block
InCritical == {t \in Threads : threads[t].pc \in {"connect", "insert_log", "insert_evaluation",
                                                   "upsert", "commit", "read_sql", "close",
                                                   "release"}}

\* the calls of a database function whose commit has been done
Committed(op) == {t \in Threads : threads[t].op = op /\ threads[t].pc \in {"close", "release", "done"}}

\* the whole row a save_annotation call writes
WholeRow(args) ==
    [conversation_id |-> args.conv_id, annotator_id |-> args.annotator, score |-> args.score,
     labels |-> <<>>, confidence |-> args.confidence]

\* C14: under every interleaving of save_result, save_annotation and
\* get_agreement_score calls, at most one thread is inside a with db_lock
\* block; the evaluations table holds, per conversation id, exactly one whole
\* row for each committed save_result call, so that repeated submissions of an
\* id append; the annotations table holds exactly one whole row per
\* (conversation_id, annotator_id) of the committed save_annotation calls, the
\* row of one of those calls; and a frame a reader got holds only whole rows.
C14_WritesSerialized ==
    /\ Cardinality(InCritical) <= 1
    /\ \A c \in ConvIds :
          Cardinality({i \in Indices(evaluations) : evaluations[i].id = c})
              = Cardinality({t \in Committed("save_result") : threads[t].arg.conversation_id = c})
    /\ \A i \in Indices(evaluations) :
          \E t \in Committed("save_result") :
              evaluations[i] = EvaluationRow(threads[t].arg, evaluations[i].timestamp)
    /\ {<<r.conversation_id, r.annotator_id>> : r \in annotations}
          = {<<threads[t].arg.conv_id, threads[t].arg.annotator>> : t \in Committed("save_annotation")}
    /\ Cardinality(annotations)
          = Cardinality({<<r.conversation_id, r.annotator_id>> : r \in annotations})
    /\ \A r \in annotations :
          \E t \in Committed("save_annotation") : r = WholeRow(threads[t].arg)
    /\ \A t \in Threads :
          threads[t].df # None =>
              \A r \in threads[t].df[1] :
                  \E u \in Threads : threads[u].op = "save_annotation" /\ r = WholeRow(threads[u].arg)

\* one save_result has committed, a second one for the same conversation id
\* holds the lock with its inserts not yet committed, and a save_annotation
\* waits for the lock
C14_Witness ==
    \E t \in Threads : \E u \in Threads : \E w \in Threads :
        /\ threads[t].op = "save_result" /\ threads[t].pc = "done"
        /\ threads[u].op = "save_result" /\ threads[u].pc = "commit"
        /\ threads[u].arg.conversation_id = threads[t].arg.conversation_id
        /\ threads[w].op = "save_annotation" /\ threads[w].pc = "acquire"
        /\ db_lock
        /\ Len(evaluations) = 1

====
